---- MODULE Spec2Model ----
(***************************************************************************)
(* A model of rsts (src/main.rs): the conversion of Rust struct and enum   *)
(* declarations to TypeScript type declarations.                           *)
(*                                                                         *)
(* Text is modelled as a sequence of lexical tokens.  A token is either an *)
(* identifier / keyword (which never holds a space or a bracket), or one   *)
(* single punctuation character: " ", "\n", "|", "(", ")", "[", "]", "{",  *)
(* "}", "<", ">", ",", ":", ";", "=", "\"".  String::contains(' ') is then *)
(* "some token is the space token", and concatenation is \o.               *)
(***************************************************************************)
EXTENDS Integers, Sequences, FiniteSets, TLC

VARIABLES
    st, ts,                 \* rendering: a SimpleType and the text SimpleType::to_ts gave for it
    ty, res,                \* normalizing: a syn::Type and the Result of SimpleType::from_syn_type
    item, decl, out,        \* one declaration: the syn item, the Simple* value built from it, its text
    args, pc, inputs, files, stdout, written   \* a run of main

vars == <<st, ts, ty, res, item, decl, out, args, pc, inputs, files, stdout, written>>

renderVars == <<st, ts>>
normVars == <<ty, res>>
declVars == <<item, decl, out>>
mainVars == <<args, pc, inputs, files, stdout, written>>

(***************************************************************************)
(* Bounds of the model.                                                    *)
(***************************************************************************)
MaxDepth == 2       \* nesting of SimpleType::new calls in the rendering specification
MaxNest == 1        \* nesting of generic arguments in the raw types that are normalized
MaxSegs == 2        \* path segments in a raw type
MaxFields == 3      \* fields of a struct declaration
MaxPayload == 2     \* payload types of an enum variant
MaxVariants == 2    \* variants of an enum declaration
MaxFiles == 2       \* INPUT arguments of a run

(***************************************************************************)
(* Helpers on sequences and text.                                          *)
(***************************************************************************)
SeqsUpTo(S, n) == UNION {[1..k -> S] : k \in 0..n}

NoText == <<>>

\* str::contains(' ')
contains_space(s) == \E i \in DOMAIN s : s[i] = " "

RECURSIVE join(_, _)
\* [String]::join(sep)
join(parts, sep) ==
    IF Len(parts) = 0 THEN <<>>
    ELSE IF Len(parts) = 1 THEN parts[1]
    ELSE parts[1] \o sep \o join(Tail(parts), sep)

RECURSIVE concat(_)
\* the concatenation of a sequence of texts
concat(parts) == IF Len(parts) = 0 THEN <<>> ELSE parts[1] \o concat(Tail(parts))

(***************************************************************************)
(* SimpleType and its rendering.                                           *)
(***************************************************************************)
SimpleType_new(path, generic_args) == [path |-> path, generic_args |-> generic_args]

NUMERIC_TYPES == {"i8", "i16", "i32", "i64", "u8", "u16", "u32", "u64", "f32", "f64"}

SimpleType_is_datetime_utc(self) ==
    /\ self.path = <<"DateTime">>
    /\ Len(self.generic_args) = 1
    /\ self.generic_args[1].path = <<"Utc">>
    /\ Len(self.generic_args[1].generic_args) = 0

OptionTsNoNull(inner) == inner \o <<" ", "|", " ", "undefined">>

\* format!("{} | null", inner)
OptionTs(inner) == inner \o <<" ", "|", " ", "null">>

VecTsNoParens(inner) == inner \o <<"[", "]">>

\* if inner.contains(' ') { inner = format!("({})", inner) }; format!("{}[]", inner)
VecTs(inner) ==
    LET wrapped == IF contains_space(inner) THEN <<"(">> \o inner \o <<")">> ELSE inner
    IN  wrapped \o <<"[", "]">>

\* format!("Record<{}, {}>", k, v)
RecordTs(k, v) == <<"Record", "<">> \o k \o <<",", " ">> \o v \o <<">">>

PlainTsNoString(name) ==
    IF name \in NUMERIC_TYPES THEN <<"number">> ELSE <<name>>

\* the rendering of a single-segment path without generic arguments
PlainTs(name) ==
    IF name \in NUMERIC_TYPES THEN <<"number">>
    ELSE IF name = "String" THEN <<"string">>
    ELSE <<name>>

RECURSIVE SimpleType_to_ts(_)
SimpleType_to_ts(self) ==
    IF self.path = <<"Option">> /\ Len(self.generic_args) = 1
    THEN OptionTs(SimpleType_to_ts(self.generic_args[1]))
    ELSE IF self.path = <<"Vec">> /\ Len(self.generic_args) = 1
    THEN VecTs(SimpleType_to_ts(self.generic_args[1]))
    ELSE IF SimpleType_is_datetime_utc(self)
    THEN <<"DateTimeUtc">>
    ELSE IF self.path = <<"HashMap">> /\ Len(self.generic_args) = 2
    THEN RecordTs(SimpleType_to_ts(self.generic_args[1]), SimpleType_to_ts(self.generic_args[2]))
    ELSE IF Len(self.generic_args) = 0
    THEN IF Len(self.path) = 1 THEN PlainTs(self.path[1]) ELSE <<"TODO1">>
    ELSE <<"TODO2">>

(***************************************************************************)
(* The rendering specification: types are built with SimpleType::new, as   *)
(* the tests of src/main.rs build them, and rendered with to_ts.           *)
(***************************************************************************)
RECURSIVE Depth(_)
Depth(t) ==
    IF Len(t.generic_args) = 0 THEN 0
    ELSE 1 + (CHOOSE m \in {Depth(t.generic_args[i]) : i \in DOMAIN t.generic_args} :
                \A i \in DOMAIN t.generic_args : Depth(t.generic_args[i]) <= m)

LeafPaths ==
    {<<n>> : n \in NUMERIC_TYPES \cup {"String", "MyType", "Utc", "Option", "Vec", "HashMap", "DateTime"}}
        \cup {<<"std", "Vec">>}

WrapPaths == {<<"Option">>, <<"Vec">>, <<"HashMap">>, <<"DateTime">>, <<"MyType">>}

I32 == SimpleType_new(<<"i32">>, <<>>)

IdleRender == st = I32 /\ ts = NoText
IdleNorm == ty = <<>> /\ res = <<>>
IdleDecl == item = <<>> /\ decl = <<>> /\ out = NoText
IdleMain == args = <<>> /\ pc = "idle" /\ inputs = <<>> /\ files = <<>> /\ stdout = NoText /\ written = 0

InitRender ==
    /\ st \in {SimpleType_new(p, <<>>) : p \in LeafPaths}
    /\ ts = NoText
    /\ IdleNorm /\ IdleDecl /\ IdleMain

\* SimpleType::new(path, generic_args) around the type built so far
TypeNew ==
    /\ Depth(st) < MaxDepth
    /\ \E p \in WrapPaths, ga \in {<<st>>, <<st, I32>>, <<I32, st>>} :
          st' = SimpleType_new(p, ga)
    /\ ts' = NoText
    /\ UNCHANGED <<normVars, declVars, mainVars>>

\* st.to_ts()
TypeToTs ==
    /\ ts = NoText
    /\ ts' = SimpleType_to_ts(st)
    /\ UNCHANGED <<st, normVars, declVars, mainVars>>

NextRender == TypeNew \/ TypeToTs

SpecRender == InitRender /\ [][NextRender]_vars

(***************************************************************************)
(* Raw syntax (syn 0.15) as the parser hands it to the program.            *)
(*   syn::Type          [variant, qself, leading_colon, segments]          *)
(*   syn::PathSegment   [ident, arguments]                                 *)
(*   syn::PathArguments [variant, args]                                    *)
(*   syn::GenericArgument [variant, ty] or [variant] for a lifetime        *)
(***************************************************************************)
NoArgs == [variant |-> "None", args |-> <<>>]
Angle(a) == [variant |-> "AngleBracketed", args |-> a]
Paren == [variant |-> "Parenthesized", args |-> <<>>]
TypeArg(t) == [variant |-> "Type", ty |-> t]
LifetimeArg == [variant |-> "Lifetime"]
Seg(ident, arguments) == [ident |-> ident, arguments |-> arguments]
TypePath(qself, leading_colon, segments) ==
    [variant |-> "Path", qself |-> qself, leading_colon |-> leading_colon, segments |-> segments]
\* a syn::Type that is no Type::Path, such as &str
TypeReference == [variant |-> "Reference", qself |-> FALSE, leading_colon |-> FALSE, segments |-> <<>>]

\* syn::PathArguments::is_empty: None is empty, <...> is empty when it lists no
\* argument, (...) -> ... never is
PathArguments_is_empty(a) ==
    CASE a.variant = "None" -> TRUE
      [] a.variant = "AngleBracketed" -> Len(a.args) = 0
      [] a.variant = "Parenthesized" -> FALSE

(***************************************************************************)
(* SimpleType::from_syn_type.  A Result is [ok, st, err].                  *)
(***************************************************************************)
Ok(t) == [ok |-> TRUE, st |-> t, err |-> "None"]
Err(e) == [ok |-> FALSE, st |-> SimpleType_new(<<>>, <<>>), err |-> e]

EarlyGenericArgsUnchecked(is_last, seg) == FALSE

\* !is_last && !seg.arguments.is_empty()
EarlyGenericArgs(is_last, seg) == ~is_last /\ ~PathArguments_is_empty(seg.arguments)

RECURSIVE SimpleType_from_syn_type(_), WalkSegments(_, _, _), WalkArgs(_, _, _)
\* for arg in args.args.iter(): pushes each normalized type argument, first error wins
WalkArgs(ga, j, acc) ==
    IF j > Len(ga) THEN Ok(acc)
    ELSE IF ga[j].variant = "Type"
    THEN LET r == SimpleType_from_syn_type(ga[j].ty)
         IN  IF r.ok
             THEN WalkArgs(ga, j + 1, [acc EXCEPT !.generic_args = Append(@, r.st)])
             ELSE r
    ELSE Err("InvalidGenericArgType")

\* for (i, seg) in path.path.segments.iter().enumerate()
WalkSegments(segs, i, acc) ==
    IF i > Len(segs) THEN Ok(acc)
    ELSE LET seg == segs[i]
             is_last == (i = Len(segs))
             pushed == [acc EXCEPT !.path = Append(@, seg.ident)]
         IN  IF EarlyGenericArgs(is_last, seg) THEN Err("EarlyGenericArgs")
             ELSE IF seg.arguments.variant = "AngleBracketed"
             THEN LET r == WalkArgs(seg.arguments.args, 1, pushed)
                  IN  IF r.ok THEN WalkSegments(segs, i + 1, r.st) ELSE r
             ELSE IF ~PathArguments_is_empty(seg.arguments) THEN Err("InvalidArgType")
             ELSE WalkSegments(segs, i + 1, pushed)

SimpleType_from_syn_type(t) ==
    IF t.variant = "Path"
    THEN IF t.qself THEN Err("QSelf")
         ELSE IF t.leading_colon THEN Err("LeadingColon")
         ELSE WalkSegments(t.segments, 1, SimpleType_new(<<>>, <<>>))
    ELSE Err("TypeIsNotPath")

(***************************************************************************)
(* The normalizing specification: a raw type from the parser is normalized *)
(* and, when that succeeds, rendered.                                      *)
(***************************************************************************)
\* the identifier of the i-th segment of a path without type arguments
RawIdents == <<"Foo", "Bar", "Baz", "Qux">>

\* argument lists that hold no type
FlatArguments == {NoArgs, Paren, Angle(<<>>), Angle(<<LifetimeArg>>)}

FlatTypes ==
    {TypeReference} \cup
    {TypePath(q, lc, [i \in DOMAIN a |-> Seg(RawIdents[i], a[i])]) :
        q \in BOOLEAN, lc \in BOOLEAN,
        a \in UNION {[1..k -> FlatArguments] : k \in 1..MaxSegs}}

\* the paths that carry the type t as a generic argument of one segment
Nesting(t) ==
    LET shapes == { <<Seg("Foo", Angle(<<TypeArg(t)>>))>>,
                    <<Seg("Foo", Angle(<<TypeArg(t)>>)), Seg("Bar", NoArgs)>>,
                    <<Seg("Foo", NoArgs), Seg("Bar", Angle(<<TypeArg(t)>>))>>,
                    <<Seg("Foo", Angle(<<>>)), Seg("Bar", Angle(<<TypeArg(t), TypeArg(t)>>))>>,
                    <<Seg("Bar", Angle(<<TypeArg(t), LifetimeArg>>))>> }
    IN  {TypePath(FALSE, lc, segs) : lc \in BOOLEAN, segs \in shapes}

RECURSIVE RawTypes(_)
RawTypes(d) ==
    IF d = 0 THEN FlatTypes
    ELSE LET inner == RawTypes(d - 1) IN inner \cup UNION {Nesting(t) : t \in inner}

NoResult == <<>>

InitNorm ==
    /\ ty \in RawTypes(MaxNest)
    /\ res = NoResult
    /\ IdleRender /\ IdleDecl /\ IdleMain

\* SimpleType::from_syn_type(&ty)
Normalize ==
    /\ res = NoResult
    /\ res' = SimpleType_from_syn_type(ty)
    /\ UNCHANGED <<ty, renderVars, declVars, mainVars>>

\* the to_ts() of a normalized type, as SimpleStruct::to_ts and SimpleEnum::to_ts call it
NormalizedToTs ==
    /\ res # NoResult
    /\ res.ok
    /\ ts = NoText
    /\ ts' = SimpleType_to_ts(res.st)
    /\ UNCHANGED <<st, ty, res, declVars, mainVars>>

NextNorm == Normalize \/ NormalizedToTs

SpecNorm == InitNorm /\ [][NextNorm]_vars

(***************************************************************************)
(* Declarations as the parser hands them over.                             *)
(*   syn::Attribute  [meta, ident, nested]: meta is what parse_meta()      *)
(*                   gives ("List", "Word", "NameValue", "Err"); nested is *)
(*                   the List's children, [variant, ident]                 *)
(*   syn::Field      [ident, ty], ident an Option                          *)
(*   syn::ItemStruct [variant, ident, attrs, fields]                       *)
(*   syn::ItemEnum   [variant, ident, attrs, variants]                     *)
(***************************************************************************)
Some(v) == [some |-> TRUE, val |-> v]
None == [some |-> FALSE, val |-> ""]

MetaWord(id) == [variant |-> "Word", ident |-> id]
MetaOther(id) == [variant |-> "Other", ident |-> id]
AttrList(id, nested) == [meta |-> "List", ident |-> id, nested |-> nested]
AttrWord(id) == [meta |-> "Word", ident |-> id, nested |-> <<>>]
Derive(names) == AttrList("derive", [i \in DOMAIN names |-> MetaWord(names[i])])

Field(ident, t) == [ident |-> ident, ty |-> t]
ItemStruct(ident, attrs, fields) ==
    [variant |-> "Struct", ident |-> ident, attrs |-> attrs, fields |-> fields]
Variant(ident, fields) == [ident |-> ident, fields |-> fields]
ItemEnum(ident, attrs, variants) ==
    [variant |-> "Enum", ident |-> ident, attrs |-> attrs, variants |-> variants]
ItemOther == [variant |-> "Other"]

attr_to_derives(attr) ==
    IF attr.meta = "List"
    THEN IF attr.ident # "derive" THEN <<>>
         ELSE LET words == SelectSeq(attr.nested, LAMBDA c : c.variant = "Word")
              IN  [i \in DOMAIN words |-> words[i].ident]
    ELSE <<>>

\* for attr in s.attrs.iter() { derives.append(&mut attr_to_derives(&attr)) }
all_derives(attrs) == concat([i \in DOMAIN attrs |-> attr_to_derives(attrs[i])])

skips_struct_serialize_only(derives) == ~(\E i \in DOMAIN derives : derives[i] = "Serialize")

\* !derives.contains("Deserialize") && !derives.contains("Serialize")
skips_struct(derives) ==
    /\ ~(\E i \in DOMAIN derives : derives[i] = "Deserialize")
    /\ ~(\E i \in DOMAIN derives : derives[i] = "Serialize")

\* the {:?} of an Option<String>
DebugOptionString(name) ==
    IF name.some THEN <<"Some", "(", "\"", name.val, "\"", ")">> ELSE <<"None">>

\* println!("{:?}: {:?}", name, err)
FieldDiagnostic(name, err) == DebugOptionString(name) \o <<":", " ", err, "\n">>

(***************************************************************************)
(* SimpleStruct.  SimpleStruct::new gives [some, ss, printed]: the Option  *)
(* it returns and the text it printed to the standard output.              *)
(***************************************************************************)
SimpleField_new(name, t) == [name |-> name, ty |-> t]

RECURSIVE StructFields(_, _, _)
\* for field in s.fields.iter()
StructFields(fields, i, acc) ==
    IF i > Len(fields) THEN acc
    ELSE LET name == fields[i].ident
             r == SimpleType_from_syn_type(fields[i].ty)
         IN  IF r.ok
             THEN StructFields(fields, i + 1,
                      [acc EXCEPT !.ss.fields = Append(@, SimpleField_new(name, r.st))])
             ELSE StructFields(fields, i + 1,
                      [acc EXCEPT !.printed = @ \o FieldDiagnostic(name, r.err)])

SimpleStruct_new(s) ==
    LET ss == [name |-> s.ident, fields |-> <<>>]
    IN  IF skips_struct(all_derives(s.attrs))
        THEN [some |-> FALSE, ss |-> ss, printed |-> NoText]
        ELSE StructFields(s.fields, 1, [some |-> TRUE, ss |-> ss, printed |-> NoText])

\* format!("  {}: {};\n", f.name.as_ref().unwrap(), f.ty.to_ts())
MemberLine(f) == <<" ", " ", f.name.val, ":", " ">> \o SimpleType_to_ts(f.ty) \o <<";", "\n">>

\* SimpleStruct::to_ts gives [panicked, text]
SimpleStruct_to_ts(self) ==
    IF Len(self.fields) = 0
    THEN [panicked |-> TRUE, text |-> NoText]       \* panic!("empty structs not supported")
    ELSE IF Len(self.fields) = 1 /\ ~self.fields[1].name.some
    THEN [panicked |-> FALSE,
          text |-> <<"export", " ", "type", " ", self.name, " ", "=", " ">>
                      \o SimpleType_to_ts(self.fields[1].ty) \o <<";", "\n">>]
    ELSE IF \E i \in DOMAIN self.fields : ~self.fields[i].name.some
    THEN [panicked |-> TRUE, text |-> NoText]       \* f.name.as_ref().unwrap() on a None
    ELSE [panicked |-> FALSE,
          text |-> <<"export", " ", "interface", " ", self.name, " ", "{", "\n">>
                      \o concat([i \in DOMAIN self.fields |-> MemberLine(self.fields[i])])
                      \o <<"}", "\n">>]

(***************************************************************************)
(* SimpleEnum.                                                             *)
(***************************************************************************)
SimpleVariant_new(name, fields) == [name |-> name, fields |-> fields]

\* SimpleEnum::from_syn_type gives [some, se]
SimpleEnum_from_syn_type(e) ==
    LET normalized(v) == [i \in DOMAIN v.fields |-> SimpleType_from_syn_type(v.fields[i].ty)]
        fails == \E k \in DOMAIN e.variants :
                    \E i \in DOMAIN e.variants[k].fields : ~normalized(e.variants[k])[i].ok
        variant(v) == SimpleVariant_new(v.ident,
                          [i \in DOMAIN v.fields |-> normalized(v)[i].st])
    IN  IF fails
        THEN [some |-> FALSE, se |-> [name |-> e.ident, variants |-> <<>>]]
        ELSE [some |-> TRUE,
              se |-> [name |-> e.ident,
                      variants |-> [k \in DOMAIN e.variants |-> variant(e.variants[k])]]]

\* the member of one variant
VariantTs(v) ==
    IF Len(v.fields) = 0
    THEN <<" ", " ", "\"", v.name, "\"">>
    ELSE IF Len(v.fields) = 1
    THEN <<" ", " ", "{", " ", v.name, ":", " ">> \o SimpleType_to_ts(v.fields[1]) \o <<" ", "}">>
    ELSE <<" ", " ", "{", " ", v.name, ":", " ", "[">>
            \o join([i \in DOMAIN v.fields |-> SimpleType_to_ts(v.fields[i])], <<",", " ">>)
            \o <<"]">>

SimpleEnum_to_ts(self) ==
    <<"export", " ", "type", " ", self.name, " ", "=", "\n">>
        \o join([k \in DOMAIN self.variants |-> VariantTs(self.variants[k])], <<" ", "|", "\n">>)
        \o <<";", "\n">>

(***************************************************************************)
(* The declaration specification: one struct or enum declaration from the  *)
(* parser is converted (SimpleStruct::new, SimpleEnum::from_syn_type) and  *)
(* rendered (to_ts).  pc follows the declaration: "parsed", then "built"   *)
(* or "dropped", then "rendered" or "panicked".                            *)
(***************************************************************************)
RawI32 == TypePath(FALSE, FALSE, <<Seg("i32", NoArgs)>>)
RawString == TypePath(FALSE, FALSE, <<Seg("String", NoArgs)>>)
RawOptionI32 == TypePath(FALSE, FALSE, <<Seg("Option", Angle(<<TypeArg(RawI32)>>))>>)
\* <T as Tr>::X
RawQSelf == TypePath(TRUE, FALSE, <<Seg("Tr", NoArgs), Seg("X", NoArgs)>>)

FieldTypes == {RawI32, RawOptionI32, RawQSelf}
PayloadTypes == {RawI32, RawString, RawQSelf}

FieldNames == <<"a", "b", "c", "d">>
VariantNames == <<"A", "B", "C", "D">>

AttrChoices ==
    { <<>>,
      <<Derive(<<"Debug">>)>>,
      <<Derive(<<"Serialize">>)>>,
      <<Derive(<<"Debug", "Clone">>), Derive(<<"Deserialize">>)>>,
      <<AttrList("serde", <<MetaWord("Serialize")>>)>>,
      <<AttrWord("Serialize")>>,
      <<AttrList("derive", <<MetaOther("Serialize")>>)>> }

\* the fields of a struct are all named (struct S { a: T }) or all unnamed (struct S(T))
Fields(named, tys) ==
    [i \in DOMAIN tys |-> Field(IF named THEN Some(FieldNames[i]) ELSE None, tys[i])]

StructItems ==
    {ItemStruct("S", attrs, Fields(named, tys)) :
        attrs \in AttrChoices, named \in BOOLEAN, tys \in SeqsUpTo(FieldTypes, MaxFields)}

Variants(payloads) ==
    [k \in DOMAIN payloads |->
        Variant(VariantNames[k], [i \in DOMAIN payloads[k] |-> Field(None, payloads[k][i])])]

EnumItems ==
    {ItemEnum("E", attrs, Variants(payloads)) :
        attrs \in {<<>>, <<Derive(<<"Serialize">>)>>},
        payloads \in SeqsUpTo(SeqsUpTo(PayloadTypes, MaxPayload), MaxVariants)}

NoDecl == <<>>

InitDecl ==
    /\ item \in StructItems \cup EnumItems
    /\ decl = NoDecl
    /\ out = NoText
    /\ pc = "parsed"
    /\ stdout = NoText
    /\ args = <<>> /\ inputs = <<>> /\ files = <<>> /\ written = 0
    /\ IdleRender /\ IdleNorm

\* SimpleStruct::new(&s)
StructNew ==
    /\ pc = "parsed"
    /\ item.variant = "Struct"
    /\ LET r == SimpleStruct_new(item)
       IN  /\ decl' = r.ss
           /\ stdout' = stdout \o r.printed
           /\ pc' = IF r.some THEN "built" ELSE "dropped"
    /\ UNCHANGED <<item, out, args, inputs, files, written, renderVars, normVars>>

\* s.to_ts() of a SimpleStruct
StructToTs ==
    /\ pc = "built"
    /\ item.variant = "Struct"
    /\ LET r == SimpleStruct_to_ts(decl)
       IN  /\ out' = r.text
           /\ pc' = IF r.panicked THEN "panicked" ELSE "rendered"
    /\ UNCHANGED <<item, decl, stdout, args, inputs, files, written, renderVars, normVars>>

\* SimpleEnum::from_syn_type(&e)
EnumFromSynType ==
    /\ pc = "parsed"
    /\ item.variant = "Enum"
    /\ LET r == SimpleEnum_from_syn_type(item)
       IN  /\ decl' = r.se
           /\ pc' = IF r.some THEN "built" ELSE "dropped"
    /\ UNCHANGED <<item, out, stdout, args, inputs, files, written, renderVars, normVars>>

\* e.to_ts() of a SimpleEnum
EnumToTs ==
    /\ pc = "built"
    /\ item.variant = "Enum"
    /\ out' = SimpleEnum_to_ts(decl)
    /\ pc' = "rendered"
    /\ UNCHANGED <<item, decl, stdout, args, inputs, files, written, renderVars, normVars>>

NextDecl == StructNew \/ StructToTs \/ EnumFromSynType \/ EnumToTs

SpecDecl == InitDecl /\ [][NextDecl]_vars

(***************************************************************************)
(* SimpleFile and main.                                                    *)
(*   a source file  [readable, parses, items]                              *)
(*   SimpleFile::load gives [panicked, file, printed]                      *)
(*   SimpleFile::to_ts gives [panicked, text]                              *)
(***************************************************************************)
SourceFile(items) == [readable |-> TRUE, parses |-> TRUE, items |-> items]
Unreadable == [readable |-> FALSE, parses |-> FALSE, items |-> <<>>]
Unparsable == [readable |-> TRUE, parses |-> FALSE, items |-> <<>>]

RECURSIVE LoadItems(_, _, _)
\* for item in syntax.items
LoadItems(items, i, acc) ==
    IF i > Len(items) THEN acc
    ELSE IF items[i].variant = "Enum"
    THEN LET r == SimpleEnum_from_syn_type(items[i])
         IN  LoadItems(items, i + 1,
                 IF r.some THEN [acc EXCEPT !.file.enums = Append(@, r.se)] ELSE acc)
    ELSE IF items[i].variant = "Struct"
    THEN LET r == SimpleStruct_new(items[i])
             printed == [acc EXCEPT !.printed = @ \o r.printed]
         IN  LoadItems(items, i + 1,
                 IF r.some THEN [printed EXCEPT !.file.structs = Append(@, r.ss)] ELSE printed)
    ELSE LoadItems(items, i + 1, acc)

SimpleFile_load(path, src) ==
    LET empty == [name |-> path, enums |-> <<>>, structs |-> <<>>]
    IN  IF ~src.readable
        THEN [panicked |-> TRUE, file |-> empty, printed |-> NoText]   \* expect("Unable to read file")
        ELSE IF ~src.parses
        THEN [panicked |-> TRUE, file |-> empty, printed |-> NoText]   \* expect("Unable to parse file")
        ELSE LoadItems(src.items, 1, [panicked |-> FALSE, file |-> empty, printed |-> NoText])

SimpleFile_to_ts(self) ==
    LET structs == [i \in DOMAIN self.structs |-> SimpleStruct_to_ts(self.structs[i])]
    IN  IF \E i \in DOMAIN structs : structs[i].panicked
        THEN [panicked |-> TRUE, text |-> NoText]
        ELSE [panicked |-> FALSE,
              text |-> <<"//", " ", self.name, "\n">>
                          \o concat([i \in DOMAIN self.enums |-> SimpleEnum_to_ts(self.enums[i])])
                          \o concat([i \in DOMAIN structs |-> structs[i].text])]

\* print!("export type DateTimeUtc = string;\n")
AliasLine == <<"export", " ", "type", " ", "DateTimeUtc", " ", "=", " ", "string", ";", "\n">>

(***************************************************************************)
(* The inputs of a run: the sources the INPUT paths may hold.              *)
(***************************************************************************)
Paths == {"a.rs", "b.rs"}

SrcPlain == ItemStruct("Plain", <<>>, Fields(TRUE, <<RawI32>>))
SrcTagged == ItemStruct("Tagged", <<AttrList("serde", <<MetaWord("Serialize")>>)>>, Fields(TRUE, <<RawI32>>))
SrcSer == ItemStruct("Ser", <<Derive(<<"Serialize">>)>>, Fields(TRUE, <<RawI32, RawOptionI32>>))
SrcMixed == ItemStruct("Mixed", <<Derive(<<"Debug", "Deserialize">>)>>, Fields(TRUE, <<RawI32, RawQSelf>>))
SrcEmpty == ItemStruct("Empty", <<Derive(<<"Serialize">>)>>, <<>>)
SrcWrapper == ItemStruct("Wrapper", <<Derive(<<"Deserialize">>)>>, Fields(FALSE, <<RawString>>))
SrcUnit == ItemEnum("Unit", <<>>, Variants(<<<<>>, <<>>>>))
SrcPay == ItemEnum("Pay", <<Derive(<<"Debug">>)>>, Variants(<<<<RawI32>>, <<RawI32, RawString>>>>))
SrcBadPay == ItemEnum("BadPay", <<>>, Variants(<<<<RawQSelf>>>>))

SourceItems ==
    {SrcPlain, SrcTagged, SrcSer, SrcMixed, SrcEmpty, SrcWrapper, SrcUnit, SrcPay, SrcBadPay, ItemOther}

Sources ==
    {Unreadable, Unparsable, SourceFile(<<>>)}
        \cup {SourceFile(<<i>>) : i \in SourceItems}
        \cup {SourceFile(<<SrcSer, SrcUnit>>), SourceFile(<<SrcPlain, SrcMixed>>)}

InitMain ==
    /\ args \in UNION {[1..n -> Paths] : n \in 1..MaxFiles}
    /\ pc = "load"
    /\ inputs = <<>>
    /\ files = <<>>
    /\ stdout = NoText
    /\ written = 0
    /\ IdleRender /\ IdleNorm /\ IdleDecl

MainLoadThenPrint ==
    /\ pc = "load"
    /\ \E src \in Sources :
          LET k == Len(inputs) + 1
              r == SimpleFile_load(args[k], src)
              t == SimpleFile_to_ts(r.file)
              head == IF k = 1 THEN AliasLine ELSE NoText
          IN  /\ inputs' = Append(inputs, src)
              /\ IF r.panicked
                 THEN /\ pc' = "panicked"
                      /\ UNCHANGED <<files, stdout, written>>
                 ELSE IF t.panicked
                 THEN /\ pc' = "panicked"
                      /\ files' = Append(files, r.file)
                      /\ stdout' = stdout \o r.printed \o head
                      /\ UNCHANGED written
                 ELSE /\ files' = Append(files, r.file)
                      /\ stdout' = stdout \o r.printed \o head \o t.text
                      /\ written' = written + 1
                      /\ pc' = IF k = Len(args) THEN "done" ELSE "load"
    /\ UNCHANGED <<args, renderVars, normVars, declVars>>

\* for input in matches.values_of("INPUT").unwrap() { files.push(SimpleFile::load(..)) }:
\* one turn of the loop, which reads the file at load time
MainLoad ==
    /\ pc = "load"
    /\ \E src \in Sources :
          LET k == Len(inputs) + 1
              r == SimpleFile_load(args[k], src)
          IN  /\ inputs' = Append(inputs, src)
              /\ IF r.panicked
                 THEN /\ pc' = "panicked"
                      /\ UNCHANGED <<files, stdout>>
                 ELSE /\ files' = Append(files, r.file)
                      /\ stdout' = stdout \o r.printed
                      /\ pc' = IF k = Len(args) THEN "alias" ELSE "load"
    /\ UNCHANGED <<args, written, renderVars, normVars, declVars>>

\* print!("export type DateTimeUtc = string;\n")
MainAlias ==
    /\ pc = "alias"
    /\ stdout' = stdout \o AliasLine
    /\ pc' = "print"
    /\ UNCHANGED <<args, inputs, files, written, renderVars, normVars, declVars>>

\* for f in files { print!("{}", f.to_ts()) }: one turn of the loop
MainPrint ==
    /\ pc = "print"
    /\ LET r == SimpleFile_to_ts(files[written + 1])
       IN  IF r.panicked
           THEN /\ pc' = "panicked"
                /\ UNCHANGED <<stdout, written>>
           ELSE /\ stdout' = stdout \o r.text
                /\ written' = written + 1
                /\ pc' = IF written + 1 = Len(files) THEN "done" ELSE "print"
    /\ UNCHANGED <<args, inputs, files, renderVars, normVars, declVars>>

NextMain == MainLoad \/ MainAlias \/ MainPrint

SpecMain == InitMain /\ [][NextMain]_vars

(***************************************************************************)
(* Vocabulary of the properties.                                           *)
(***************************************************************************)
Count(text, tok) == Cardinality({i \in DOMAIN text : text[i] = tok})

IsPrefix(p, text) == Len(p) <= Len(text) /\ SubSeq(text, 1, Len(p)) = p

\* the places where the text p occurs in text
Occurrences(p, text) ==
    {i \in 1..(Len(text) - Len(p) + 1) : SubSeq(text, i, i + Len(p) - 1) = p}

Rendered == ts # NoText

\* the declaration carries #[derive(.. Serialize ..)] or #[derive(.. Deserialize ..)]
HasMarker(d) ==
    \E a \in DOMAIN d.attrs :
        /\ d.attrs[a].meta = "List"
        /\ d.attrs[a].ident = "derive"
        /\ \E n \in DOMAIN d.attrs[a].nested :
              /\ d.attrs[a].nested[n].variant = "Word"
              /\ d.attrs[a].nested[n].ident \in {"Serialize", "Deserialize"}

Normalizable(t) == SimpleType_from_syn_type(t).ok

\* the interface the specification describes for a record of the given fields
InterfaceOf(name, fields) ==
    <<"export", " ", "interface", " ", name, " ", "{", "\n">>
        \o concat([i \in DOMAIN fields |->
                      <<" ", " ", fields[i].name.val, ":", " ">>
                          \o SimpleType_to_ts(fields[i].ty) \o <<";", "\n">>])
        \o <<"}", "\n">>

\* the member the specification describes for one variant of a union
ClaimedMember(v) ==
    IF Len(v.fields) = 0
    THEN <<" ", " ", "\"", v.name, "\"">>
    ELSE IF Len(v.fields) = 1
    THEN <<" ", " ", "{", " ", v.name, ":", " ">> \o SimpleType_to_ts(v.fields[1]) \o <<" ", "}">>
    ELSE <<" ", " ", "{", " ", v.name, ":", " ", "[">>
            \o join([i \in DOMAIN v.fields |-> SimpleType_to_ts(v.fields[i])], <<",", " ">>)
            \o <<"]", " ", "}">>

\* the fields of a struct item whose types normalize, as SimpleFields
NormalizableFields(s) ==
    LET kept == SelectSeq(s.fields, LAMBDA f : Normalizable(f.ty))
    IN  [i \in DOMAIN kept |->
            SimpleField_new(kept[i].ident, SimpleType_from_syn_type(kept[i].ty).st)]

MixedFields(s) ==
    /\ \E i \in DOMAIN s.fields : Normalizable(s.fields[i].ty)
    /\ \E i \in DOMAIN s.fields : ~Normalizable(s.fields[i].ty)

\* the names of SimpleTypeError, as {:?} prints them
ErrorKinds ==
    {"QSelf", "LeadingColon", "EarlyGenericArgs", "InvalidGenericArgType", "InvalidArgType",
     "TypeIsNotPath"}

Names(decls) == [i \in DOMAIN decls |-> decls[i].name]
Idents(items) == [i \in DOMAIN items |-> items[i].ident]

EnumNormalizes(e) ==
    \A k \in DOMAIN e.variants :
        \A i \in DOMAIN e.variants[k].fields : Normalizable(e.variants[k].fields[i].ty)

\* the alias line has been printed
AliasWritten ==
    pc \in {"print", "done"} \/ (pc = "panicked" /\ Len(files) = Len(args))

\* a normalized type keeps the segments in order and has the normalized type
\* arguments of its last segment
NormalizedKeepsLastArguments ==
    (res # NoResult /\ res.ok) =>
        LET segs == ty.segments
            last == segs[Len(segs)].arguments.args
        IN  /\ res.st.path = [i \in DOMAIN segs |-> segs[i].ident]
            /\ Len(res.st.generic_args) = Len(last)
            /\ \A j \in DOMAIN last :
                  /\ last[j].variant = "Type"
                  /\ res.st.generic_args[j] = SimpleType_from_syn_type(last[j].ty).st

\* an argument list that lists something: <..> with an argument, or (..)
NonEmptyArguments(a) ==
    a.variant = "Parenthesized" \/ (a.variant = "AngleBracketed" /\ Len(a.args) > 0)

(***************************************************************************)
(* C5 (SpecRender): Vec<T> renders "(" render(T) ")[]" when render(T)      *)
(* holds a space character and render(T) "[]" otherwise.                   *)
(***************************************************************************)
C5_VecParenthesizesSpaced ==
    (Rendered /\ st.path = <<"Vec">> /\ Len(st.generic_args) = 1) =>
        LET inner == SimpleType_to_ts(st.generic_args[1])
        IN  ts = IF \E i \in DOMAIN inner : inner[i] = " "
                 THEN <<"(">> \o inner \o <<")", "[", "]">>
                 ELSE inner \o <<"[", "]">>

\* Vec<Option<i32>> was rendered as (number | null)[]
C5_Witness ==
    /\ st = SimpleType_new(<<"Vec">>, <<SimpleType_new(<<"Option">>, <<I32>>)>>)
    /\ ts = <<"(", "number", " ", "|", " ", "null", ")", "[", "]">>

(***************************************************************************)
(* C6 (SpecRender): the one-segment Option with the single argument T      *)
(* renders render(T) followed by " | null", whatever T is.                 *)
(***************************************************************************)
C6_OptionAppendsNull ==
    (Rendered /\ st.path = <<"Option">> /\ Len(st.generic_args) = 1) =>
        ts = SimpleType_to_ts(st.generic_args[1]) \o <<" ", "|", " ", "null">>

\* an Option of an Option of a placeholder (std::Vec renders TODO1) was rendered
C6_Witness ==
    /\ st = SimpleType_new(<<"Option">>,
                <<SimpleType_new(<<"Option">>, <<SimpleType_new(<<"std", "Vec">>, <<>>)>>)>>)
    /\ ts = <<"TODO1", " ", "|", " ", "null", " ", "|", " ", "null">>

(***************************************************************************)
(* C7 (SpecRender): a single-segment path without generic arguments        *)
(* renders number for the ten numeric names, string for String, and the    *)
(* name itself otherwise (Option, Vec, HashMap, DateTime included).        *)
(***************************************************************************)
C7_PlainNames ==
    (Rendered /\ Len(st.generic_args) = 0 /\ Len(st.path) = 1) =>
        ts = IF st.path[1] \in {"i8", "i16", "i32", "i64", "u8", "u16", "u32", "u64", "f32", "f64"}
             THEN <<"number">>
             ELSE IF st.path[1] = "String" THEN <<"string">>
             ELSE <<st.path[1]>>

\* String was rendered as string
C7_Witness ==
    /\ st = SimpleType_new(<<"String">>, <<>>)
    /\ ts = <<"string">>

(***************************************************************************)
(* C10 (SpecNorm), as claimed: a path type with a generic-argument list    *)
(* syntactically present on a segment other than the last (an empty <>     *)
(* included) fails with EarlyGenericArgs; a normalized type keeps every    *)
(* segment in order and has the normalized arguments of its last segment.  *)
(***************************************************************************)
C10_AnyEarlyArgumentListFails ==
    /\ (res # NoResult /\ ty.variant = "Path"
          /\ \E i \in 1..(Len(ty.segments) - 1) : ty.segments[i].arguments.variant # "None")
        => (~res.ok /\ res.err = "EarlyGenericArgs")
    /\ NormalizedKeepsLastArguments

(***************************************************************************)
(* C10 (SpecNorm), amended: a path type without qualified self and without *)
(* leading colon fails with EarlyGenericArgs when a segment other than the *)
(* last carries a non-empty argument list (<..> with an argument, or a     *)
(* parenthesized list); an empty <> there is accepted and adds nothing.  A *)
(* normalized type keeps every segment in order and has exactly the        *)
(* normalized type arguments of its last segment.                          *)
(***************************************************************************)
C10_NonEmptyEarlyArgumentsFail ==
    /\ (res # NoResult /\ ty.variant = "Path" /\ ~ty.qself /\ ~ty.leading_colon
          /\ \E i \in 1..(Len(ty.segments) - 1) : NonEmptyArguments(ty.segments[i].arguments))
        => (~res.ok /\ res.err = "EarlyGenericArgs")
    /\ (res # NoResult /\ res.ok)
        => \A i \in 1..(Len(ty.segments) - 1) : ~NonEmptyArguments(ty.segments[i].arguments)
    /\ NormalizedKeepsLastArguments

\* Foo<>::Bar<Foo, Foo> was normalized: the empty <> passed, the arguments are the last segment's
C10_Witness ==
    /\ res # NoResult
    /\ res.ok
    /\ Len(ty.segments) = 2
    /\ ty.segments[1].arguments = Angle(<<>>)
    /\ Len(res.st.generic_args) = 2
    /\ res.st.path = <<"Foo", "Bar">>

(***************************************************************************)
(* C1 (SpecDecl): a rendered union lists one member per variant, a variant *)
(* of two or more payload types as { Name: [t1, ..., tn] } with the        *)
(* payload types in declaration order, and its braces and brackets are     *)
(* balanced.                                                               *)
(***************************************************************************)
C1_MultiPayloadBalanced ==
    (pc = "rendered" /\ item.variant = "Enum") =>
        /\ Count(out, "{") = Count(out, "}")
        /\ Count(out, "[") = Count(out, "]")
        /\ out = <<"export", " ", "type", " ", decl.name, " ", "=", "\n">>
                    \o join([k \in DOMAIN decl.variants |-> ClaimedMember(decl.variants[k])],
                            <<" ", "|", "\n">>)
                    \o <<";", "\n">>

(***************************************************************************)
(* C2 (SpecDecl): a record that carries a marker and has at least one      *)
(* normalizable and at least one non-normalizable field is not dropped,    *)
(* does not abort the translation, and renders as the interface of exactly *)
(* its normalizable fields, in source order.                               *)
(***************************************************************************)
C2_FieldFailureIsolation ==
    (item.variant = "Struct" /\ HasMarker(item) /\ MixedFields(item)) =>
        /\ pc \notin {"dropped", "panicked"}
        /\ pc = "rendered" => out = InterfaceOf(item.ident, NormalizableFields(item))

(***************************************************************************)
(* C4 (SpecDecl): a record with at least one field that is not the single  *)
(* unnamed field renders, without failing, as an interface with one member *)
(* line per field, in field order, and no optional-member syntax; records  *)
(* of two or more unnamed fields included.                                 *)
(***************************************************************************)
C4_InterfacePerField ==
    (item.variant = "Struct" /\ pc \in {"built", "rendered", "panicked"}
        /\ Len(decl.fields) >= 1
        /\ ~(Len(decl.fields) = 1 /\ ~decl.fields[1].name.some)) =>
        /\ pc # "panicked"
        /\ pc = "rendered" => (out = InterfaceOf(decl.name, decl.fields) /\ Count(out, "?") = 0)

(***************************************************************************)
(* C3 (SpecMain): whatever the standard output holds begins with the alias *)
(* line, which occurs once; the diagnostics of the fields never stand in   *)
(* it.                                                                     *)
(***************************************************************************)
C3_AliasLineFirst ==
    (stdout # NoText) =>
        /\ IsPrefix(AliasLine, stdout)
        /\ Cardinality(Occurrences(AliasLine, stdout)) = 1
        /\ \A i \in DOMAIN stdout : stdout[i] \notin ErrorKinds

(***************************************************************************)
(* C8 (SpecMain): of the records of a loaded file exactly those that carry *)
(* Serialize or Deserialize among their derive markers are passed on, in   *)
(* source order; the name of a record without them never stands in the     *)
(* output; the unions are passed on whatever their markers are (those      *)
(* whose payload types all normalize).                                     *)
(***************************************************************************)
C8_MarkerFiltering ==
    /\ \A k \in DOMAIN files :
          /\ Names(files[k].structs) =
                Idents(SelectSeq(inputs[k].items, LAMBDA d : d.variant = "Struct" /\ HasMarker(d)))
          /\ Names(files[k].enums) =
                Idents(SelectSeq(inputs[k].items, LAMBDA d : d.variant = "Enum" /\ EnumNormalizes(d)))
    /\ \A k \in DOMAIN inputs :
          \A i \in DOMAIN inputs[k].items :
              LET d == inputs[k].items[i]
              IN  (d.variant = "Struct" /\ ~HasMarker(d)) => Count(stdout, d.ident) = 0

\* a run ended that read a record without marker, a record with one and a union without any
C8_Witness ==
    /\ pc = "done"
    /\ Len(inputs) = 2
    /\ inputs[1] = SourceFile(<<SrcPlain, SrcMixed>>)
    /\ inputs[2] = SourceFile(<<SrcUnit>>)
    /\ Count(stdout, "Mixed") = 1
    /\ Count(stdout, "Unit") = 1

(***************************************************************************)
(* C9 (SpecMain), as claimed: the text of a file is written before the     *)
(* load of the next file begins.                                           *)
(***************************************************************************)
C9_PerFileSequencing ==
    \A k \in 1..(Len(inputs) - 1) : written >= k

(***************************************************************************)
(* C9 (SpecMain), amended: every file is loaded and parsed, in argument    *)
(* order, before the alias line or the text of any file is written; the    *)
(* texts are then translated and written one file at a time in argument    *)
(* order.  When the load of a file aborts the run, no text of any file has *)
(* been written; when the translation of file k aborts it, the alias line  *)
(* and the texts of the files before k have been written, in order.        *)
(***************************************************************************)
C9_LoadAllThenWrite ==
    /\ (written > 0 \/ AliasWritten) => Len(files) = Len(args)
    /\ (pc = "panicked" /\ Len(files) < Len(inputs)) => written = 0
    /\ written <= Len(files)
    /\ stdout =
          concat([k \in DOMAIN files |-> SimpleFile_load(args[k], inputs[k]).printed])
              \o (IF AliasWritten THEN AliasLine ELSE NoText)
              \o concat([k \in 1..written |-> SimpleFile_to_ts(files[k]).text])

\* the translation of the second file aborted the run after the text of the first was written
C9_Witness ==
    /\ pc = "panicked"
    /\ Len(files) = 2
    /\ written = 1
    /\ Count(stdout, "//") = 1

====
